---- MODULE Spec2Model ----
(***************************************************************************)
(* A model of converter_app.py: ConversionWorker.run and the helpers it    *)
(* calls (filename sanitizer, collision resolver, audio prober, parameter   *)
(* selector, ffmpeg fallback ladder), over a small directory tree.          *)
(*                                                                          *)
(* A file name is a sequence of character tokens.  An ASCII character is    *)
(* the one-character string; any other character is the token "Uxxxx" of    *)
(* its code point (U0442 is the Cyrillic letter te).  A path is the record  *)
(* [dir, name, ext]: os.path.join(dir, name + "." + ext).                   *)
(***************************************************************************)
EXTENDS Integers, Sequences, FiniteSets, TLC

(***************************************************************************)
(* Bounds of the model.                                                     *)
(***************************************************************************)
\* The largest number of files in the tree when the run starts.
MaxFiles == 2
\* The largest number of environment faults in one run: a transcoder
\* attempt that exits non-zero, writes an empty file or writes none, and a
\* child-process call, os.chmod or os.remove that raises.
MaxFaults == 2
\* The largest number of files in the tree when the window opens.
MaxWindowFiles == 2
\* The largest number of workers the window starts.
MaxRuns == 2
\* The longest file name handed to sanitize_filename on its own.
MaxNameLen == 3
\* The largest number of consecutive calls of the collision resolver for one
\* source name, each target being created before the next call.
MaxCalls == 2

(***************************************************************************)
(* Optional values: Python's None is the empty sequence, a value v is <<v>>.*)
(***************************************************************************)
None == <<>>
Some(v) == <<v>>
IsNone(o) == o = <<>>
Val(o) == o[1]

SeqToSet(s) == {s[i] : i \in 1..Len(s)}

(***************************************************************************)
(* Characters.                                                              *)
(***************************************************************************)
AsciiLower == <<"a","b","c","d","e","f","g","h","i","j","k","l","m",
                "n","o","p","q","r","s","t","u","v","w","x","y","z">>
AsciiUpper == <<"A","B","C","D","E","F","G","H","I","J","K","L","M",
                "N","O","P","Q","R","S","T","U","V","W","X","Y","Z">>
AsciiDigits == <<"0","1","2","3","4","5","6","7","8","9">>

\* The 33 lower-case and 33 upper-case letters of the first argument of
\* str.maketrans, in its order: a be ve ghe de ie io zhe ze i short-i ka el
\* em en o pe er es te u ef ha tse che sha shcha hard yeru soft e yu ya.
CyrLower == <<"U0430","U0431","U0432","U0433","U0434","U0435","U0451",
              "U0436","U0437","U0438","U0439","U043A","U043B","U043C",
              "U043D","U043E","U043F","U0440","U0441","U0442","U0443",
              "U0444","U0445","U0446","U0447","U0448","U0449","U044A",
              "U044B","U044C","U044D","U044E","U044F">>
CyrUpper == <<"U0410","U0411","U0412","U0413","U0414","U0415","U0401",
              "U0416","U0417","U0418","U0419","U041A","U041B","U041C",
              "U041D","U041E","U041F","U0420","U0421","U0422","U0423",
              "U0424","U0425","U0426","U0427","U0428","U0429","U042A",
              "U042B","U042C","U042D","U042E","U042F">>
\* The second argument of str.maketrans, position by position.
LatLower == <<"a","b","v","g","d","e","e","j","z","i","j","k","l","m",
              "n","o","p","r","s","t","u","f","h","z","c","s","s","_",
              "y","_","e","u","a">>
LatUpper == <<"A","B","V","G","D","E","E","J","Z","I","J","K","L","M",
              "N","O","P","R","S","T","U","F","H","Z","C","S","S","_",
              "Y","_","E","U","A">>

\* Characters outside ASCII and outside the table for which str.isalnum is
\* true: e-acute, E-acute, Ukrainian i and I, the CJK character zhong, the
\* Arabic-Indic digit three.
OtherLower == <<"U00E9", "U0456">>
OtherUpper == <<"U00C9", "U0406">>
OtherCaseless == {"U4E2D", "U0663"}

IndexOf(s, c) == CHOOSE i \in 1..Len(s) : s[i] = c

\* the characters of the sequences above, as sets
AsciiAlnumChars ==
    SeqToSet(AsciiLower) \cup SeqToSet(AsciiUpper) \cup SeqToSet(AsciiDigits)
AsciiUpperChars == SeqToSet(AsciiUpper)
CyrLowerChars == SeqToSet(CyrLower)
CyrUpperChars == SeqToSet(CyrUpper)
OtherAlnumChars == SeqToSet(OtherLower) \cup SeqToSet(OtherUpper) \cup OtherCaseless
OtherUpperChars == SeqToSet(OtherUpper)

\* str.translate(str.maketrans(cyrillic, latin)) on one character
TranslitChar(c) ==
    IF c \in CyrLowerChars THEN LatLower[IndexOf(CyrLower, c)]
    ELSE IF c \in CyrUpperChars THEN LatUpper[IndexOf(CyrUpper, c)]
    ELSE c

\* str.isalnum on one character (Unicode-aware)
IsAlnum(c) ==
    \/ c \in AsciiAlnumChars
    \/ c \in CyrLowerChars \cup CyrUpperChars
    \/ c \in OtherAlnumChars

\* str.lower on one character
LowerChar(c) ==
    IF c \in AsciiUpperChars THEN AsciiLower[IndexOf(AsciiUpper, c)]
    ELSE IF c \in CyrUpperChars THEN CyrLower[IndexOf(CyrUpper, c)]
    ELSE IF c \in OtherUpperChars THEN OtherLower[IndexOf(OtherUpper, c)]
    ELSE c

\* str.lower on a string of characters
lower(text) == [i \in 1..Len(text) |-> LowerChar(text[i])]

transliterate(text) == [i \in 1..Len(text) |-> TranslitChar(text[i])]

untitled == <<"u","n","t","i","t","l","e","d">>

sanitize_filename(filename) ==
    LET t == transliterate(filename)
        kept == SelectSeq(t, IsAlnum)
        named == IF kept = <<>> THEN untitled ELSE kept
    IN  lower(named)

(***************************************************************************)
(* Strings the code lower-cases as a whole (extensions, codec names): the   *)
(* upper-case spellings the model uses, and their lower-case forms.         *)
(***************************************************************************)
UpperStrings == <<"MP3", "WAV", "FLAC", "M4A", "AAC", "ALAC">>
LowerStrings == <<"mp3", "wav", "flac", "m4a", "aac", "alac">>

\* str.lower on a whole extension or codec name
LowerStr(s) ==
    IF s \in SeqToSet(UpperStrings) THEN LowerStrings[IndexOf(UpperStrings, s)]
    ELSE s

MAX_SAMPLE_RATE == 48000
LOSSY_CODECS == {"mp3", "mp2", "aac", "opus", "vorbis",
                 "wma", "wmav1", "wmav2", "ac3", "eac3"}
LOSSY_EXTENSIONS == {"mp3", "mp2", "aac", "m4a", "ogg", "opus", "wma"}
FILTER_CHAIN_PRIMARY == "adeclick,adeclip,anequalizer=c0 f=10000 w=1000 g=-5 t=1"
FILTER_CHAIN_FALLBACK == "anequalizer=c0 f=10000 w=1000 g=-5 t=1"
\* the command line without -af
NO_FILTER_CHAIN == ""

audio_extensions == <<"mp3", "wav", "aac", "m4a", "flac", "ogg", "wma",
                      "aiff", "alac", "tak">>

(***************************************************************************)
(* Audio prober.  A raw value handed to int() is None, Raw(n) for a string  *)
(* or number that int() parses to n, or RawNA for a string int() rejects    *)
(* ("N/A").                                                                 *)
(***************************************************************************)
Raw(n) == Some([ok |-> TRUE, n |-> n])
RawNA == Some([ok |-> FALSE, n |-> 0])

_parse_int(value) ==
    IF IsNone(value) THEN None
    ELSE IF ~Val(value).ok THEN None
    ELSE Some(Val(value).n)

IsDigit(c) == c \in SeqToSet(AsciiDigits)
DigitVal(c) == IndexOf(AsciiDigits, c) - 1

\* the length of the run of digits of s that starts at position i
RECURSIVE DigitRun(_, _)
DigitRun(s, i) ==
    IF i <= Len(s) /\ IsDigit(s[i]) THEN 1 + DigitRun(s, i + 1) ELSE 0

\* int() of a string of digits
RECURSIVE DigitsToInt(_)
DigitsToInt(s) ==
    IF s = <<>> THEN 0
    ELSE 10 * DigitsToInt(SubSeq(s, 1, Len(s) - 1)) + DigitVal(s[Len(s)])

StartsWith(s, prefix) ==
    /\ Len(s) >= Len(prefix)
    /\ SubSeq(s, 1, Len(prefix)) = prefix

\* sample_fmt is None or <<token>>, a token being a sequence of characters
_sample_fmt_to_bit_depth(sample_fmt) ==
    IF IsNone(sample_fmt) \/ Val(sample_fmt) = <<>> THEN None
    ELSE LET f == Val(sample_fmt)
             run == DigitRun(f, 2)
         IN  IF f[1] \in {"s", "u"} /\ run > 0
                THEN Some(DigitsToInt(SubSeq(f, 2, 1 + run)))
             ELSE IF StartsWith(f, <<"f","l","t">>) THEN Some(32)
             ELSE IF StartsWith(f, <<"d","b","l">>) THEN Some(64)
             ELSE None

AllUnknown ==
    [sample_rate |-> None, sample_fmt |-> None, bit_depth |-> None, codec_name |-> None]

\* out is None (no ffprobe, non-zero exit, empty or unparseable output, no
\* stream) or <<stream>>, the first stream of the JSON answer
_probe_audio_with_ffprobe(out) ==
    IF IsNone(out) THEN None
    ELSE LET stream == Val(out)
             raw == _parse_int(stream.bits_per_raw_sample)
             named == IF IsNone(raw) THEN _parse_int(stream.bit_depth) ELSE raw
             bit_depth == IF IsNone(named)
                             THEN _sample_fmt_to_bit_depth(stream.sample_fmt)
                             ELSE named
         IN  Some([sample_rate |-> _parse_int(stream.sample_rate),
                   sample_fmt |-> stream.sample_fmt,
                   bit_depth |-> bit_depth,
                   codec_name |-> stream.codec_name])

\* banner is None (no line with "Audio:", or the call raised) or <<line>>,
\* line.hz and line.fmt being what the two regular expressions find in it
_probe_audio_with_ffmpeg(banner) ==
    IF IsNone(banner) THEN None
    ELSE LET line == Val(banner)
         IN  Some([sample_rate |-> _parse_int(line.hz),
                   sample_fmt |-> line.fmt,
                   bit_depth |-> _sample_fmt_to_bit_depth(line.fmt),
                   codec_name |-> None])

_get_audio_info(out, banner) ==
    LET first == _probe_audio_with_ffprobe(out)
        second == _probe_audio_with_ffmpeg(banner)
    IN  IF ~IsNone(first) THEN Val(first)
        ELSE IF ~IsNone(second) THEN Val(second)
        ELSE AllUnknown

(***************************************************************************)
(* Parameter selector.                                                      *)
(***************************************************************************)
\* a selector for which a bit depth that is not known is the depth 0
_needs_16bit_absent_is_zero(bit_depth, sample_fmt) ==
    LET inferred == _sample_fmt_to_bit_depth(sample_fmt)
        depth == IF ~IsNone(bit_depth) THEN Val(bit_depth)
                 ELSE IF ~IsNone(inferred) THEN Val(inferred)
                 ELSE 0
    IN  depth > 16

_needs_16bit(bit_depth, sample_fmt) ==
    IF ~IsNone(bit_depth) THEN Val(bit_depth) > 16
    ELSE LET inferred == _sample_fmt_to_bit_depth(sample_fmt)
         IN  IF ~IsNone(inferred) THEN Val(inferred) > 16 ELSE TRUE

_needs_resample(sample_rate) ==
    ~IsNone(sample_rate) /\ Val(sample_rate) > MAX_SAMPLE_RATE

\* (audio_info.get("codec_name") or "").lower()
CodecOf(audio_info) ==
    IF IsNone(audio_info.codec_name) THEN ""
    ELSE LowerStr(Val(audio_info.codec_name))

\* Path(audiofile).suffix.lower().lstrip(".")
SuffixOf(audiofile) == LowerStr(audiofile.ext)

\* a selector that looks at the extension only when the codec is unknown
_should_apply_filters_codec_first(audiofile, audio_info) ==
    LET codec == CodecOf(audio_info)
    IN  IF codec \in LOSSY_CODECS THEN TRUE
        ELSE IF codec = "" THEN TRUE
        ELSE FALSE

\* a selector that decides by the extension alone when the codec is not
\* known
_should_apply_filters_by_extension(audiofile, audio_info) ==
    LET codec == CodecOf(audio_info)
    IN  IF codec \in LOSSY_CODECS THEN TRUE
        ELSE SuffixOf(audiofile) \in LOSSY_EXTENSIONS

_should_apply_filters(audiofile, audio_info) ==
    LET codec == CodecOf(audio_info)
    IN  IF codec \in LOSSY_CODECS THEN TRUE
        ELSE IF SuffixOf(audiofile) \in LOSSY_EXTENSIONS THEN TRUE
        ELSE codec = ""

(***************************************************************************)
(* Paths, the collision resolver and the directory tree.                    *)
(***************************************************************************)
Path(dir, name, ext) == [dir |-> dir, name |-> name, ext |-> ext]

\* no file: the value of audiofile and wavfile before the first file
NoFile == Path("", <<>>, "")

\* str(counter)
RECURSIVE IntToDigits(_)
IntToDigits(n) ==
    IF n < 10 THEN <<AsciiDigits[n + 1]>>
    ELSE IntToDigits(n \div 10) \o <<AsciiDigits[(n % 10) + 1]>>

\* the path the loop body builds for one value of counter
Suffixed(root, new_filename, counter) ==
    IF new_filename = untitled
        THEN Path(root, untitled \o IntToDigits(counter), "wav")
        ELSE Path(root, new_filename \o <<"_">> \o IntToDigits(counter), "wav")

\* while os.path.exists(wavfile): ...; exists is the set of paths on disk
RECURSIVE ResolveLoop(_, _, _, _, _)
ResolveLoop(exists, root, new_filename, wavfile, counter) ==
    IF wavfile \in exists
        THEN ResolveLoop(exists, root, new_filename,
                         Suffixed(root, new_filename, counter), counter + 1)
        ELSE wavfile

\* a resolver that adds a suffix once: "if" in the place of "while"
ResolveOnce(exists, audiofile) ==
    LET new_filename == sanitize_filename(audiofile.name)
        first == Path(audiofile.dir, new_filename, "wav")
    IN  IF first \in exists THEN Suffixed(audiofile.dir, new_filename, 1) ELSE first

\* a resolver that never looks at the disk
ResolveNoCheck(exists, audiofile) ==
    Path(audiofile.dir, sanitize_filename(audiofile.name), "wav")

\* lines 316-327: the target path of audiofile
Resolve(exists, audiofile) ==
    LET new_filename == sanitize_filename(audiofile.name)
    IN  ResolveLoop(exists, audiofile.dir, new_filename,
                    Path(audiofile.dir, new_filename, "wav"), 1)

\* a test that accepts every supported extension in every pass
MatchesAnyPass(file, ext) ==
    \E i \in 1..Len(audio_extensions) : LowerStr(file.ext) = audio_extensions[i]

\* file.lower().endswith("." + ext)
Matches(file, ext) == LowerStr(file.ext) = ext

\* the directories os.walk yields, top-down
WalkDirs == <<"top", "top/sub">>

\* the files the tree may hold when the run starts
InitialFiles ==
    { Path("top", <<"a", "!">>, "mp3"),
      Path("top", <<"a", "@">>, "mp3"),
      Path("top", <<"a">>, "wav"),
      Path("top", <<"b">>, "flac"),
      Path("top", <<"n">>, "txt"),
      Path("top/sub", <<"!">>, "M4A") }

(***************************************************************************)
(* What the child processes may answer.                                     *)
(***************************************************************************)
Stream(rate, fmt, bits, depth, codec) ==
    [sample_rate |-> rate, sample_fmt |-> fmt, bits_per_raw_sample |-> bits,
     bit_depth |-> depth, codec_name |-> codec]

\* the answers of ffprobe: none, or the first audio stream
FfprobeOutputs ==
    { None,
      Some(Stream(Raw(44100), Some(<<"f","l","t","p">>), None, None, Some("mp3"))),
      Some(Stream(Raw(96000), Some(<<"s","3","2">>), Raw(24), None, Some("flac"))),
      Some(Stream(Raw(44100), Some(<<"s","1","6","p">>), RawNA, None, Some("ALAC"))),
      Some(Stream(None, None, None, None, Some(""))) }

\* what the regular expressions find in the banner of ffmpeg -i: no audio
\* line, or the rate and the sample format of the line
BannerOutputs ==
    { None,
      Some([hz |-> Raw(44100), fmt |-> Some(<<"s","1","6","p">>)]),
      Some([hz |-> None, fmt |-> None]) }

NoSuchFilterText ==
    <<"N","o"," ","s","u","c","h"," ","f","i","l","t","e","r",":"," ","'","a","d","e","c","l","i","c","k","'">>
ErrorInitText ==
    <<"E","r","r","o","r"," ","i","n","i","t","i","a","l","i","z","i","n","g"," ","f","i","l","t","e","r">>
InvalidDataText ==
    <<"I","n","v","a","l","i","d"," ","d","a","t","a">>

\* pattern in text, for strings as sequences of characters
Contains(text, pattern) ==
    \E i \in 1..(Len(text) - Len(pattern) + 1) :
        SubSeq(text, i, i + Len(pattern) - 1) = pattern

\* the same search without stderr_text.lower()
_is_filter_error_cased(stderr_text) ==
    IF stderr_text = <<>> THEN FALSE
    ELSE \/ Contains(stderr_text, <<"n","o"," ","s","u","c","h"," ","f","i","l","t","e","r">>)
         \/ Contains(stderr_text, <<"e","r","r","o","r"," ","i","n","i","t","i","a","l","i","z","i","n","g"," ","f","i","l","t","e","r">>)

_is_filter_error(stderr_text) ==
    IF stderr_text = <<>> THEN FALSE
    ELSE LET text == lower(stderr_text)
         IN  \/ Contains(text, <<"n","o"," ","s","u","c","h"," ","f","i","l","t","e","r">>)
             \/ Contains(text, <<"e","r","r","o","r"," ","i","n","i","t","i","a","l","i","z","i","n","g"," ","f","i","l","t","e","r">>)

\* One call of subprocess.run on an ffmpeg command line: the exit status,
\* the diagnostics, what the call left at the output path ("none": nothing
\* written, "empty": a file of size 0, "data": a file of non-zero size), and
\* whether subprocess.run raised instead of returning.
Outcome(rc, stderr, effect, raised) ==
    [rc |-> rc, stderr |-> stderr, effect |-> effect, raised |-> raised]

AttemptOutcomes ==
    { Outcome(0, <<>>, "data", FALSE),
      Outcome(0, <<>>, "empty", FALSE),
      Outcome(0, <<>>, "none", FALSE),
      Outcome(1, NoSuchFilterText, "none", FALSE),
      Outcome(1, ErrorInitText, "data", FALSE),
      Outcome(1, InvalidDataText, "data", FALSE),
      Outcome(1, <<>>, "none", FALSE),
      Outcome(1, <<>>, "none", TRUE),
      Outcome(1, <<>>, "data", TRUE) }

IsFault(o) == ~(o.rc = 0 /\ o.effect = "data" /\ ~o.raised)

(***************************************************************************)
(* State of one run of ConversionWorker.run.                                *)
(***************************************************************************)
VARIABLES
    pc,             \* where run is: "start", "walk", "probe", "ffmpeg",
                    \* "verify", "except" (entering the handler of line
                    \* 370), "finished" (after finished.emit), "aborted"
                    \* (after error.emit)
    dirExists,      \* os.path.exists(self.directory)
    dirWritable,    \* os.access(self.directory, os.W_OK)
    ffmpegExists,   \* os.path.exists(self.ffmpeg_path)
    disk0,          \* the files of the tree when the run started
    disk,           \* the files of the tree: path -> "orig" (content from
                    \* before the run), "data" (non-empty ffmpeg output),
                    \* "empty" (ffmpeg output of size 0)
    extIdx,         \* index in audio_extensions of the pass; 0 before
    dirIdx,         \* index in WalkDirs of the directory os.walk yielded
    pending,        \* the matching files of that directory's listing not
                    \* yet iterated
    audiofile,      \* the source file being processed, or processed last
    wavfile,        \* its resolved target
    diskBefore,     \* disk when wavfile was resolved
    audio_info,     \* the result of _get_audio_info for audiofile
    probes,         \* the probing strategies called for audiofile, in order,
                    \* each with the record it returned (or None)
    cmds,           \* the filter chains of the command lines built for it
    attempts,       \* the ffmpeg calls made for it, in order
    result,         \* the result the conversion code holds: None or <<r>>
    outcome,        \* "none" while it is processed, then how it was
                    \* counted: "success" or "failure"
    success_count,
    error_count,
    events,         \* the signals emitted, in order
    claimed,        \* every (source, target) the resolver produced
    ops,            \* the kinds of file operation made so far
    faults          \* the number of environment faults so far

\* The window that owns the worker (MainWindow), and the call of one
\* function on its own.
VARIABLES
    selected_directory, \* MainWindow.selected_directory: None or <<dir>>
    convert_enabled,    \* convert_button.isEnabled()
    select_enabled,     \* select_button.isEnabled()
    handled,            \* how many of the worker's signals the slots of the
                        \* window have run for
    runs,               \* the workers started so far
    call                \* a function applied on its own: its name, its
                        \* arguments, what it returned; NoCall otherwise

workerVars == <<pc, disk0, dirExists, dirWritable, ffmpegExists, disk, extIdx, dirIdx,
                pending, audiofile, wavfile, diskBefore, audio_info, probes, cmds,
                attempts, result, outcome, success_count, error_count, events,
                claimed, ops, faults>>
windowVars == <<selected_directory, convert_enabled, select_enabled, handled, runs>>
outerVars == <<windowVars, call>>
vars == <<workerVars, windowVars, call>>

NoCall == [fn |-> ""]

Exists(d, path) == path \in DOMAIN d
\* os.path.getsize(path) > 0, for a file that exists
NonEmpty(d, path) == d[path] # "empty"
WriteFile(d, path, content) ==
    [q \in DOMAIN d \cup {path} |-> IF q = path THEN content ELSE d[q]]
RemoveFile(d, path) == [q \in DOMAIN d \ {path} |-> d[q]]

Event(kind, text, src, dst, counts) ==
    [kind |-> kind, text |-> text, src |-> src, dst |-> dst, counts |-> counts]
Emit(kind, text, src, dst, counts) ==
    events' = Append(events, Event(kind, text, src, dst, counts))

\* the kinds of file operation: "chmod", "probe", "transcode" (which
\* creates or overwrites the output), "remove"
NoOps == {}
Count(kind) == ops \cup {kind}

Init ==
    /\ pc = "start"
    /\ dirExists \in BOOLEAN
    /\ dirWritable \in BOOLEAN
    /\ ffmpegExists \in BOOLEAN
    /\ dirExists = FALSE => dirWritable = FALSE
    /\ \E files \in SUBSET InitialFiles :
          /\ Cardinality(files) <= MaxFiles
          /\ dirExists = FALSE => files = {}
          /\ disk = [f \in files |-> "orig"]
    /\ disk0 = disk
    /\ extIdx = 0
    /\ dirIdx = 0
    /\ pending = {}
    /\ audiofile = NoFile
    /\ wavfile = NoFile
    /\ diskBefore = disk
    /\ audio_info = AllUnknown
    /\ probes = <<>>
    /\ cmds = <<>>
    /\ attempts = <<>>
    /\ result = None
    /\ outcome = "none"
    /\ success_count = 0
    /\ error_count = 0
    /\ events = <<>>
    /\ claimed = {}
    /\ ops = NoOps
    /\ faults = 0
    /\ selected_directory = Some("top")
    /\ convert_enabled = FALSE
    /\ select_enabled = FALSE
    /\ handled = 0
    /\ runs = 1
    /\ call = NoCall

\* the checks of lines 284-295 without os.access
FatalReasonNoAccess(exists, writable, ffmpeg) ==
    IF ~exists THEN "no directory"
    ELSE IF ~ffmpeg THEN "no ffmpeg"
    ELSE ""

\* lines 284-295: the message of the error signal, or "" when the three
\* checks pass
FatalReason(exists, writable, ffmpeg) ==
    IF ~exists THEN "no directory"
    ELSE IF ~writable THEN "not writable"
    ELSE IF ~ffmpeg THEN "no ffmpeg"
    ELSE ""

\* lines 283-304: the precondition checks, the chmod calls, the counters.
\* os.chmod raises when the binary is not the user's: the outer handler
\* (lines 375-376) then emits the error signal.
RunStart ==
    /\ pc = "start"
    /\ LET reason == FatalReason(dirExists, dirWritable, ffmpegExists)
       IN  IF reason # ""
              THEN /\ Emit("fatal", reason, NoFile, NoFile, None)
                   /\ pc' = "aborted"
                   /\ UNCHANGED <<ops, faults>>
              ELSE \E chmodRaises \in BOOLEAN :
                    /\ chmodRaises => faults < MaxFaults
                    /\ ops' = Count("chmod")
                    /\ IF chmodRaises
                          THEN /\ Emit("fatal", "critical", NoFile, NoFile, None)
                               /\ pc' = "aborted"
                               /\ faults' = faults + 1
                          ELSE /\ pc' = "walk"
                               /\ UNCHANGED <<events, faults>>
    /\ UNCHANGED <<disk0, dirExists, dirWritable, ffmpegExists, disk, extIdx, dirIdx,
                   pending, audiofile, wavfile, diskBefore, audio_info, probes,
                   cmds, attempts, result, outcome, success_count, error_count,
                   claimed>>
    /\ UNCHANGED outerVars

\* the loops nested the other way round: directories outside, extensions
\* inside
WalkStepDirOuter(e, d) ==
    IF d > 0 /\ e < Len(audio_extensions)
       THEN [ext |-> e + 1, dir |-> d]
       ELSE [ext |-> 1, dir |-> d + 1]

\* lines 309-310: the position after (e, d) of the loop over
\* audio_extensions (outside) and of os.walk (inside, restarted for each
\* extension); (0, 0) is the position before the first pass
WalkStep(e, d) ==
    IF e > 0 /\ d < Len(WalkDirs)
       THEN [ext |-> e, dir |-> d + 1]
       ELSE [ext |-> e + 1, dir |-> 1]

\* lines 310-312: the files of a directory's listing that the pass of one
\* extension iterates
Listing(d, e, dI) ==
    {f \in DOMAIN d : f.dir = WalkDirs[dI] /\ Matches(f, audio_extensions[e])}

\* the last directory of the last pass
AtEnd(e, dI) == e = Len(audio_extensions) /\ dI = Len(WalkDirs)

\* lines 309-310: the positions the two loops go through, in order
RECURSIVE WalkFrom(_, _)
WalkFrom(e, dI) ==
    IF AtEnd(e, dI) THEN <<>>
    ELSE LET p == WalkStep(e, dI)
         IN  <<p>> \o WalkFrom(p.ext, p.dir)
Positions == WalkFrom(0, 0)

\* the positions at which a file of the tree is in the listing iterated
PositionsOf(file) ==
    {i \in 1..Len(Positions) :
        /\ file.dir = WalkDirs[Positions[i].dir]
        /\ Matches(file, audio_extensions[Positions[i].ext])}

\* lines 309-312: the loops go on from position (e, dI) to the next
\* directory whose listing has a file of the pass, or to the end; the
\* iterations over directories with no such file do nothing
NextListing(d, e, dI) ==
    LET here == IF e = 0 THEN 0
                ELSE CHOOSE i \in 1..Len(Positions) :
                        Positions[i] = [ext |-> e, dir |-> dI]
        later == {i \in UNION {PositionsOf(f) : f \in DOMAIN d} : i > here}
    IN  IF later = {} THEN Positions[Len(Positions)]
        ELSE Positions[CHOOSE i \in later : \A j \in later : i <= j]

\* lines 309-312: os.walk yields the next directory with files of the pass
\* (of this pass, or of a later one); its listing is read at that moment
WalkNext ==
    /\ pc = "walk"
    /\ pending = {}
    /\ ~AtEnd(extIdx, dirIdx)
    /\ \E p \in {NextListing(disk, extIdx, dirIdx)} :
           /\ extIdx' = p.ext
           /\ dirIdx' = p.dir
           /\ pending' = Listing(disk, p.ext, p.dir)
    /\ UNCHANGED <<pc, disk0, dirExists, dirWritable, ffmpegExists, disk, audiofile,
                   wavfile, diskBefore, audio_info, probes, cmds, attempts,
                   result, outcome, success_count, error_count, events,
                   claimed, ops, faults>>
    /\ UNCHANGED outerVars

\* lines 311-330: the next file of the listing (in the order the listing
\* has, which is any), its new name, its target, the two progress signals
BeginFile ==
    /\ pc = "walk"
    /\ \E file \in pending :
        LET target == Resolve(DOMAIN disk, file)
        IN  /\ pending' = pending \ {file}
            /\ audiofile' = file
            /\ wavfile' = target
            /\ claimed' = claimed \cup {[src |-> file, dst |-> target]}
            /\ events' = events \o
                 << Event("start", "", file, NoFile, None),
                    Event("newname", "", file, target, None) >>
    /\ diskBefore' = disk
    /\ audio_info' = AllUnknown
    /\ probes' = <<>>
    /\ cmds' = <<>>
    /\ attempts' = <<>>
    /\ result' = None
    /\ outcome' = "none"
    /\ pc' = "probe"
    /\ UNCHANGED <<disk0, dirExists, dirWritable, ffmpegExists, disk, extIdx, dirIdx,
                   success_count, error_count, ops, faults>>
    /\ UNCHANGED outerVars

\* lines 229-232: the probing strategies _get_audio_info calls, in order,
\* each with what it returned
ProbeCalls(out, banner) ==
    LET first == _probe_audio_with_ffprobe(out)
    IN  IF ~IsNone(first)
           THEN << [tool |-> "ffprobe", info |-> first] >>
           ELSE << [tool |-> "ffprobe", info |-> first],
                   [tool |-> "ffmpeg", info |-> _probe_audio_with_ffmpeg(banner)] >>

\* lines 333-353: probe the file, select the parameters, build the
\* command lines
Probe ==
    /\ pc = "probe"
    /\ \E out \in FfprobeOutputs, banner \in BannerOutputs :
        /\ ~IsNone(out) => IsNone(banner)
        /\ audio_info' = _get_audio_info(out, banner)
        /\ probes' = ProbeCalls(out, banner)
        /\ ops' = Count("probe")
    /\ cmds' = IF _should_apply_filters(audiofile, audio_info')
                  THEN <<FILTER_CHAIN_PRIMARY, FILTER_CHAIN_FALLBACK, NO_FILTER_CHAIN>>
                  ELSE <<NO_FILTER_CHAIN>>
    /\ pc' = "ffmpeg"
    /\ UNCHANGED <<disk0, dirExists, dirWritable, ffmpegExists, disk, extIdx, dirIdx,
                   pending, audiofile, wavfile, diskBefore, attempts, result,
                   outcome, success_count, error_count, events, claimed, faults>>
    /\ UNCHANGED outerVars

\* a ladder that tests the diagnostics of every failed attempt
LadderReturnsStrict(tried, total, r) ==
    \/ r.rc = 0
    \/ tried = total
    \/ ~_is_filter_error(r.stderr)

\* _run_ffmpeg_with_fallbacks, lines 263-280, and the single call of lines
\* 355-359 (total = 1): TRUE when the result r of attempt number tried, of
\* total command lines, is the one handed back
LadderReturns(tried, total, r) ==
    \/ r.rc = 0
    \/ tried = total
    \/ tried = 1 /\ ~_is_filter_error(r.stderr)

\* The iteration's last statement ran: its locals are dead (the next
\* iteration assigns each before reading it).
EndOfFile ==
    /\ audio_info' = AllUnknown
    /\ probes' = <<>>
    /\ cmds' = <<>>
    /\ attempts' = <<>>
    /\ result' = None
    /\ pc' = "walk"

\* one subprocess.run of lines 264, 273 or 355, with what
\* _run_ffmpeg_with_fallbacks does with its result; an exception leaves
\* the try block for the handler of line 370
RunAttempt ==
    /\ pc = "ffmpeg"
    /\ \E o \in AttemptOutcomes :
        LET tried == Len(attempts) + 1
            r == [rc |-> o.rc, stderr |-> o.stderr]
        IN  /\ IsFault(o) => faults < MaxFaults
            /\ faults' = IF IsFault(o) THEN faults + 1 ELSE faults
            /\ disk' = IF o.effect = "none" THEN disk
                       ELSE WriteFile(disk, wavfile, o.effect)
            /\ attempts' = Append(attempts,
                 [chain |-> cmds[tried], input |-> audiofile, output |-> wavfile,
                  pcm_s16le |-> _needs_16bit(audio_info.bit_depth, audio_info.sample_fmt),
                  ar |-> _needs_resample(audio_info.sample_rate),
                  rc |-> o.rc, stderr |-> o.stderr, raised |-> o.raised])
            /\ ops' = Count("transcode")
            /\ IF o.raised
                  THEN /\ pc' = "except"
                       /\ UNCHANGED result
                  ELSE /\ result' = Some(r)
                       /\ pc' = IF LadderReturns(tried, Len(cmds), r)
                                   THEN "verify" ELSE "ffmpeg"
    /\ UNCHANGED <<disk0, dirExists, dirWritable, ffmpegExists, extIdx, dirIdx,
                   pending, audiofile, wavfile, diskBefore, audio_info, probes,
                   cmds, outcome, success_count, error_count, events, claimed>>
    /\ UNCHANGED outerVars

\* a test without the size: result.returncode == 0
SuccessTestNoSize(r, d, path) == r.rc = 0

\* line 361, when it does not raise:
\* result.returncode == 0 and os.path.getsize(wavfile) > 0
SuccessTest(r, d, path) == r.rc = 0 /\ NonEmpty(d, path)

\* line 361 raises: os.path.getsize of a file that does not exist
GetsizeRaises(r, d, path) == r.rc = 0 /\ ~Exists(d, path)

\* lines 361-369: the verdict on the file, the removal of the source or of
\* the partial output, the counters; os.path.getsize and os.remove may
\* raise, which leaves the try block for the handler of line 370
Verify ==
    /\ pc = "verify"
    /\ LET r == Val(result)
       IN  IF GetsizeRaises(r, disk, wavfile)
              THEN /\ pc' = "except"
                   /\ UNCHANGED <<disk, ops, faults, events, success_count,
                                  error_count, outcome, audio_info, probes,
                                  cmds, attempts, result>>
           ELSE IF SuccessTest(r, disk, wavfile)
              THEN /\ Emit("success", "", audiofile, wavfile, None)
                   /\ ops' = Count("remove")
                   /\ UNCHANGED error_count
                   /\ \E removeRaises \in BOOLEAN :
                        /\ ~Exists(disk, audiofile) => removeRaises
                        /\ removeRaises => faults < MaxFaults
                        /\ IF removeRaises
                              THEN /\ pc' = "except"
                                   /\ faults' = faults + 1
                                   /\ UNCHANGED <<disk, success_count, outcome,
                                                  audio_info, probes, cmds,
                                                  attempts, result>>
                              ELSE /\ disk' = RemoveFile(disk, audiofile)
                                   /\ success_count' = success_count + 1
                                   /\ outcome' = "success"
                                   /\ EndOfFile
                                   /\ UNCHANGED faults
           ELSE /\ Emit("failure", "", audiofile, NoFile, None)
                /\ UNCHANGED success_count
                /\ IF Exists(disk, wavfile)
                      THEN /\ ops' = Count("remove")
                           /\ \E removeRaises \in BOOLEAN :
                                /\ removeRaises => faults < MaxFaults
                                /\ IF removeRaises
                                      THEN /\ pc' = "except"
                                           /\ faults' = faults + 1
                                           /\ UNCHANGED <<disk, error_count, outcome,
                                                          audio_info, probes, cmds,
                                                          attempts, result>>
                                      ELSE /\ disk' = RemoveFile(disk, wavfile)
                                           /\ error_count' = error_count + 1
                                           /\ outcome' = "failure"
                                           /\ EndOfFile
                                           /\ UNCHANGED faults
                      ELSE /\ error_count' = error_count + 1
                           /\ outcome' = "failure"
                           /\ EndOfFile
                           /\ UNCHANGED <<disk, ops, faults>>
    /\ UNCHANGED <<disk0, dirExists, dirWritable, ffmpegExists, extIdx, dirIdx,
                   pending, audiofile, wavfile, diskBefore, claimed>>
    /\ UNCHANGED outerVars

\* lines 370-372: the handler of an exception raised while a file is
\* processed
HandleException ==
    /\ pc = "except"
    /\ Emit("exception", "", audiofile, NoFile, None)
    /\ error_count' = error_count + 1
    /\ outcome' = "failure"
    /\ EndOfFile
    /\ UNCHANGED <<disk0, dirExists, dirWritable, ffmpegExists, disk, extIdx, dirIdx,
                   pending, audiofile, wavfile, diskBefore, success_count,
                   claimed, ops, faults>>
    /\ UNCHANGED outerVars

\* line 374: both loops are over
Finish ==
    /\ pc = "walk"
    /\ pending = {}
    /\ extIdx = Len(audio_extensions)
    /\ dirIdx = Len(WalkDirs)
    /\ Emit("summary", "", NoFile, NoFile, Some(<<success_count, error_count>>))
    /\ pc' = "finished"
    /\ UNCHANGED <<disk0, dirExists, dirWritable, ffmpegExists, disk, extIdx, dirIdx,
                   pending, audiofile, wavfile, diskBefore, audio_info, probes,
                   cmds, attempts, result, outcome, success_count, error_count,
                   claimed, ops, faults>>
    /\ UNCHANGED outerVars

Next ==
    \/ RunStart
    \/ WalkNext
    \/ BeginFile
    \/ Probe
    \/ RunAttempt
    \/ Verify
    \/ HandleException
    \/ Finish

Spec == Init /\ [][Next]_vars

TypeOK ==
    /\ pc \in {"start", "walk", "probe", "ffmpeg", "verify", "except",
             "finished", "aborted"}
    /\ outcome \in {"none", "success", "failure"}
    /\ \A f \in DOMAIN disk : disk[f] \in {"orig", "data", "empty"}
    /\ success_count \in Nat
    /\ error_count \in Nat
    /\ faults \in 0..MaxFaults

(***************************************************************************)
(* The helpers applied on their own, to arguments the small tree of the run *)
(* does not produce: sanitize_filename to every name of up to MaxNameLen    *)
(* characters of NameChars, _needs_16bit to the depths and sample formats   *)
(* of BitDepths and SampleFormats, the collision resolver (lines 316-327)   *)
(* MaxCalls times in a row in a directory that holds any of ResolverFiles.  *)
(***************************************************************************)
\* ASCII letters, a digit, punctuation, white space, Russian letters of
\* the table (te, Zhe, the hard sign), and letters and digits outside it
NameChars ==
    {"a", "Z", "7", "!", " ", "U0442", "U0416", "U044A",
     "U00E9", "U0406", "U4E2D", "U0663"}
Names == UNION {[1..n -> NameChars] : n \in 0..MaxNameLen}

BitDepths == {None, Some(0), Some(8), Some(16), Some(17), Some(24), Some(32)}
SampleFormats ==
    { None, Some(<<>>), Some(<<"u","8">>), Some(<<"s","1","6">>),
      Some(<<"s","1","6","p">>), Some(<<"s","3","2">>), Some(<<"f","l","t">>),
      Some(<<"f","l","t","p">>), Some(<<"d","b","l">>), Some(<<"s">>),
      Some(<<"x">>) }

ResolverSources ==
    { Path("top", <<"a", "!">>, "mp3"), Path("top", <<"!">>, "mp3") }
ResolverFiles ==
    { Path("top", <<"a">>, "wav"),
      Path("top", <<"a","_","1">>, "wav"),
      Path("top", <<"a","_","2">>, "wav"),
      Path("top", <<"a","1">>, "wav"),
      Path("top", untitled, "wav"),
      Path("top", untitled \o <<"1">>, "wav"),
      Path("top", untitled \o <<"2">>, "wav"),
      Path("top", untitled \o <<"_","1">>, "wav") }

\* no worker and no window: nothing runs but the function
NoWorker ==
    /\ pc = "idle"
    /\ dirExists = FALSE
    /\ dirWritable = FALSE
    /\ ffmpegExists = FALSE
    /\ disk = <<>>
    /\ disk0 = disk
    /\ extIdx = 0
    /\ dirIdx = 0
    /\ pending = {}
    /\ audiofile = NoFile
    /\ wavfile = NoFile
    /\ diskBefore = disk
    /\ audio_info = AllUnknown
    /\ probes = <<>>
    /\ cmds = <<>>
    /\ attempts = <<>>
    /\ result = None
    /\ outcome = "none"
    /\ success_count = 0
    /\ error_count = 0
    /\ events = <<>>
    /\ claimed = {}
    /\ ops = NoOps
    /\ faults = 0
    /\ selected_directory = None
    /\ convert_enabled = FALSE
    /\ select_enabled = FALSE
    /\ handled = 0
    /\ runs = 0

FunctionInit ==
    /\ NoWorker
    /\ \/ \E filename \in Names :
             call = [fn |-> "sanitize_filename", filename |-> filename,
                     returned |-> None]
       \/ \E bit_depth \in BitDepths, sample_fmt \in SampleFormats :
             call = [fn |-> "_needs_16bit", bit_depth |-> bit_depth,
                     sample_fmt |-> sample_fmt, returned |-> None]
       \/ \E exists \in SUBSET ResolverFiles, file \in ResolverSources :
             call = [fn |-> "resolve", audiofile |-> file, exists |-> exists,
                     before |-> <<>>, returned |-> <<>>]

\* lines 122-136
ApplySanitize ==
    /\ call.fn = "sanitize_filename"
    /\ IsNone(call.returned)
    /\ call' = [call EXCEPT !.returned = Some(sanitize_filename(call.filename))]
    /\ UNCHANGED <<workerVars, windowVars>>

\* lines 237-243
ApplyNeeds16bit ==
    /\ call.fn = "_needs_16bit"
    /\ IsNone(call.returned)
    /\ call' = [call EXCEPT
                  !.returned = Some(_needs_16bit(call.bit_depth, call.sample_fmt))]
    /\ UNCHANGED <<workerVars, windowVars>>

\* lines 316-327, then the creation of the file at the path returned
ApplyResolve ==
    /\ call.fn = "resolve"
    /\ Len(call.returned) < MaxCalls
    /\ LET target == Resolve(call.exists, call.audiofile)
       IN  call' = [call EXCEPT !.returned = Append(@, target),
                                !.before = Append(@, call.exists),
                                !.exists = @ \cup {target}]
    /\ UNCHANGED <<workerVars, windowVars>>

FunctionNext ==
    \/ ApplySanitize
    \/ ApplyNeeds16bit
    \/ ApplyResolve

FunctionSpec == FunctionInit /\ [][FunctionNext]_vars

(***************************************************************************)
(* MainWindow: the two buttons, the slots of the worker's three signals,    *)
(* and the worker thread it starts.  The signals are queued to the thread   *)
(* of the window, which runs their slots in the order of emission: handled  *)
(* counts the signals of events whose slot has run.                         *)
(***************************************************************************)
\* The files the tree may hold when the window opens: one source and one
\* file that is not supported.  The window's workers are the worker of Spec;
\* what the window adds is the interleaving of its slots with the worker's
\* steps, which multiplies the states, so its tree is kept smaller.
WindowFiles ==
    { Path("top", <<"a", "!">>, "mp3"),
      Path("top", <<"n">>, "txt") }

\* The environment faults left to the workers of the window: one less than
\* MaxFaults, for all its workers together.
WindowFaults == MaxFaults - 1

\* lines 379-410 and main(): the window before any click
WindowInit ==
    /\ pc = "idle"
    /\ dirExists \in BOOLEAN
    /\ dirWritable \in BOOLEAN
    /\ ffmpegExists \in BOOLEAN
    /\ dirExists = FALSE => dirWritable = FALSE
    /\ \E files \in SUBSET WindowFiles :
          /\ Cardinality(files) <= MaxWindowFiles
          /\ dirExists = FALSE => files = {}
          /\ disk = [f \in files |-> "orig"]
    /\ disk0 = disk
    /\ extIdx = 0
    /\ dirIdx = 0
    /\ pending = {}
    /\ audiofile = NoFile
    /\ wavfile = NoFile
    /\ diskBefore = disk
    /\ audio_info = AllUnknown
    /\ probes = <<>>
    /\ cmds = <<>>
    /\ attempts = <<>>
    /\ result = None
    /\ outcome = "none"
    /\ success_count = 0
    /\ error_count = 0
    /\ events = <<>>
    /\ claimed = {}
    /\ ops = NoOps
    /\ faults = MaxFaults - WindowFaults
    /\ selected_directory = None
    /\ convert_enabled = FALSE
    /\ select_enabled = TRUE
    /\ handled = 0
    /\ runs = 0
    /\ call = NoCall

\* lines 412-420: a click on select_button; the dialog is cancelled, or
\* returns the directory of the tree
SelectDirectory ==
    /\ select_enabled
    /\ \E directory \in {None} \cup (IF dirExists THEN {Some("top")} ELSE {}) :
          IF ~IsNone(directory) /\ dirWritable
             THEN /\ selected_directory' = directory
                  /\ convert_enabled' = TRUE
             ELSE UNCHANGED <<selected_directory, convert_enabled>>
    /\ UNCHANGED <<workerVars, select_enabled, handled, runs, call>>

\* lines 422-434: a click on convert_button; ConversionWorker(...) and
\* worker.start() make a new thread at the first statement of run, with
\* no signal emitted yet; progress_text.clear() empties the log
StartConversion ==
    /\ convert_enabled
    /\ runs < MaxRuns
    /\ IF IsNone(selected_directory)
          THEN UNCHANGED vars
          ELSE /\ convert_enabled' = FALSE
               /\ select_enabled' = FALSE
               /\ handled' = 0
               /\ runs' = runs + 1
               /\ pc' = "start"
               /\ disk0' = disk
               /\ extIdx' = 0
               /\ dirIdx' = 0
               /\ pending' = {}
               /\ audiofile' = NoFile
               /\ wavfile' = NoFile
               /\ diskBefore' = disk
               /\ audio_info' = AllUnknown
               /\ probes' = <<>>
               /\ cmds' = <<>>
               /\ attempts' = <<>>
               /\ result' = None
               /\ outcome' = "none"
               /\ success_count' = 0
               /\ error_count' = 0
               /\ events' = <<>>
               /\ claimed' = {}
               /\ ops' = NoOps
               /\ UNCHANGED <<dirExists, dirWritable, ffmpegExists, disk, faults,
                              selected_directory, call>>

\* the next signal whose slot the window has not run yet
NextSignal == events[handled + 1]

\* lines 436-441: the slot of the progress signal
UpdateProgress ==
    /\ handled < Len(events)
    /\ NextSignal.kind \notin {"summary", "fatal"}
    /\ handled' = handled + 1
    /\ UNCHANGED <<workerVars, selected_directory, convert_enabled,
                   select_enabled, runs, call>>

\* a slot of the error signal that shows the message and leaves the buttons
HandleErrorKeepsButtons ==
    /\ handled < Len(events)
    /\ NextSignal.kind = "fatal"
    /\ handled' = handled + 1
    /\ UNCHANGED <<workerVars, selected_directory, convert_enabled,
                   select_enabled, runs, call>>

\* lines 443-446: the slot of the error signal (the message box, then the
\* two buttons)
HandleError ==
    /\ handled < Len(events)
    /\ NextSignal.kind = "fatal"
    /\ handled' = handled + 1
    /\ convert_enabled' = TRUE
    /\ select_enabled' = TRUE
    /\ UNCHANGED <<workerVars, selected_directory, runs, call>>

\* lines 448-454: the slot of the finished signal
ConversionFinished ==
    /\ handled < Len(events)
    /\ NextSignal.kind = "summary"
    /\ handled' = handled + 1
    /\ convert_enabled' = TRUE
    /\ select_enabled' = TRUE
    /\ UNCHANGED <<workerVars, selected_directory, runs, call>>

WindowNext ==
    \/ SelectDirectory
    \/ StartConversion
    \/ UpdateProgress
    \/ HandleError
    \/ ConversionFinished
    \/ RunStart
    \/ WalkNext
    \/ BeginFile
    \/ Probe
    \/ RunAttempt
    \/ Verify
    \/ HandleException
    \/ Finish

WindowSpec == WindowInit /\ [][WindowNext]_vars

(***************************************************************************)
(* Properties.                                                              *)
(***************************************************************************)
LastAttempt == attempts[Len(attempts)]

\* the last transcoder attempt for the file exited 0 and its target exists
\* with non-zero size
VerifiedSuccess ==
    /\ attempts # <<>>
    /\ ~LastAttempt.raised
    /\ LastAttempt.rc = 0
    /\ LastAttempt.input = audiofile
    /\ Exists(disk, wavfile)
    /\ NonEmpty(disk, wavfile)

\* C1: the source file is removed only in a step taken when the last
\* transcoder attempt for it exited 0 and the target exists with non-zero
\* size; success_count grows only in such a step; and when the verdict is
\* reached without these two conditions the source stays, success_count
\* stays and the file is counted in error_count.
C1_RemovalOnlyAfterVerifiedSuccess ==
    [][ /\ (Exists(disk, audiofile) /\ ~Exists(disk', audiofile)) => VerifiedSuccess
        /\ success_count' # success_count =>
              /\ VerifiedSuccess
              /\ success_count' = success_count + 1
              /\ outcome' = "success"
        /\ (pc = "verify" /\ ~VerifiedSuccess) =>
              /\ success_count' = success_count
              /\ Exists(disk', audiofile) <=> Exists(disk, audiofile)
              /\ \/ pc' = "except"
                 \/ outcome' = "failure" /\ error_count' = error_count + 1
        /\ pc = "except" =>
              /\ outcome' = "failure"
              /\ error_count' = error_count + 1
              /\ success_count' = success_count
      ]_vars

\* a file was counted as a success: its source is gone, its target is there
C1_Witness ==
    /\ outcome = "success"
    /\ success_count = 1
    /\ ~Exists(disk, audiofile)
    /\ Exists(disk, wavfile)
    /\ disk[wavfile] = "data"

\* C2: no .wav file is started as a source and no transcoder invocation
\* takes a .wav file as its input.
C2_WavIsNeverASource ==
    /\ \A i \in DOMAIN attempts : ~Matches(attempts[i].input, "wav")
    /\ \A i \in DOMAIN events :
          events[i].kind = "start" => ~Matches(events[i].src, "wav")

\* C3: a directory that holds a!.mp3 and a@.mp3 and nothing else, every
\* call succeeding: at the summary a.wav and a_1.wav are there, both
\* originals are gone and the summary counts 2 successes.
C3_TwoCollidingSources ==
    ( /\ pc = "finished"
      /\ DOMAIN disk0 = { Path("top", <<"a", "!">>, "mp3"),
                          Path("top", <<"a", "@">>, "mp3") }
      /\ faults = 0 )
    => /\ Exists(disk, Path("top", <<"a">>, "wav"))
       /\ Exists(disk, Path("top", <<"a", "_", "1">>, "wav"))
       /\ ~Exists(disk, Path("top", <<"a", "!">>, "mp3"))
       /\ ~Exists(disk, Path("top", <<"a", "@">>, "mp3"))
       /\ success_count = 2
       /\ events[Len(events)].counts = Some(<<2, 0>>)

\* C4, as claimed: no target path is handed to two different source files
\* in one run.
C4_TargetNeverReused ==
    \A c1 \in claimed, c2 \in claimed :
        c1.dst = c2.dst => c1.src = c2.src

\* C4, amended: a target path handed to one source file is handed to
\* another source file only when no file exists at that path at that
\* moment.
C4_TargetReusedOnlyWhenFree ==
    \A c \in claimed :
        (c.dst = wavfile /\ c.src # audiofile) => ~Exists(diskBefore, wavfile)

\* two sources with the same sanitized name in one directory, the output of
\* the first still on disk when the second was resolved: two targets
C4_Witness ==
    \E c \in claimed :
        /\ c.src # audiofile
        /\ c.src.dir = audiofile.dir
        /\ sanitize_filename(c.src.name) = sanitize_filename(audiofile.name)
        /\ Exists(diskBefore, c.dst)
        /\ c.dst # wavfile

\* C5: every transcoder invocation writes to a path that is not its input,
\* at which no file existed when the target was resolved, and that is not
\* a file the pass has still to process; its input is a file of the tree.
C5_OutputIsAFreshPath ==
    \A i \in DOMAIN attempts :
        LET a == attempts[i]
        IN  /\ a.output # a.input
            /\ ~Exists(diskBefore, a.output)
            /\ a.output \notin pending
            /\ Exists(diskBefore, a.input)

\* a .wav source whose sanitized name is its own name is transcoded
C5_Witness ==
    /\ attempts # <<>>
    /\ LastAttempt.input = Path("top", <<"a">>, "wav")
    /\ LastAttempt.output = Path("top", <<"a", "_", "1">>, "wav")

\* the filter-error signature, on the diagnostics the transcoder may give
Signature(text) == text \in {NoSuchFilterText, ErrorInitText}
Failed(a) == ~a.raised /\ a.rc # 0
LadderApplies == cmds = <<FILTER_CHAIN_PRIMARY, FILTER_CHAIN_FALLBACK, NO_FILTER_CHAIN>>

\* C6: with the filters applied the attempts are primary, reduced, none in
\* that order, each at most once; every attempt but the last failed; a
\* primary failure with the signature is followed by one reduced attempt;
\* a primary failure without it is followed by none.
C6_LadderOrder ==
    LadderApplies =>
        /\ Len(attempts) <= 3
        /\ \A i \in DOMAIN attempts : attempts[i].chain = cmds[i]
        /\ \A i \in 1..(Len(attempts) - 1) : Failed(attempts[i])
        /\ (attempts # <<>> /\ Failed(attempts[1]) /\ ~Signature(attempts[1].stderr))
              => Len(attempts) = 1 /\ pc # "ffmpeg"
        /\ (attempts # <<>> /\ Failed(attempts[1]) /\ Signature(attempts[1].stderr)
              /\ pc # "ffmpeg")
              => Len(attempts) >= 2 /\ attempts[2].chain = FILTER_CHAIN_FALLBACK

\* the ladder went through its three steps
C6_Witness ==
    /\ LadderApplies
    /\ Len(attempts) = 3
    /\ attempts[1].stderr = NoSuchFilterText
    /\ attempts[3].chain = NO_FILTER_CHAIN
    /\ attempts[3].rc = 0
    /\ pc = "verify"

C8_FiltersIffNotKnownLossless ==
    pc \in {"ffmpeg", "verify", "except"} =>
        LET codec == CodecOf(audio_info)
            ext == SuffixOf(audiofile)
        IN  LadderApplies <=>
                \/ codec # "" /\ codec \in LOSSY_CODECS
                \/ codec = "" /\ ext \in LOSSY_EXTENSIONS
                \/ codec = ""

\* C8, amended: the filters are applied if and only if the codec is in the
\* lossy-codec set, or the extension is in the lossy-extension set
\* whatever the codec, or the codec is unknown or empty.
C8_FiltersIffLossyCodecOrExtension ==
    pc \in {"ffmpeg", "verify", "except"} =>
        LET known == ~IsNone(audio_info.codec_name) /\ Val(audio_info.codec_name) # ""
            lossyCodec == known /\ LowerStr(Val(audio_info.codec_name)) \in LOSSY_CODECS
            lossyExt == LowerStr(audiofile.ext) \in LOSSY_EXTENSIONS
        IN  LadderApplies <=> (lossyCodec \/ lossyExt \/ ~known)

\* a known codec that is not lossy, in a file with a lossy extension: the
\* filters are applied
C8_Witness ==
    /\ pc = "ffmpeg"
    /\ audio_info.codec_name = Some("ALAC")
    /\ audiofile.ext = "M4A"
    /\ LadderApplies

\* C9: after a file was counted as a failure no file is at its target, its
\* source is there, and the tree is as it was before the file.
C9_FailureLeavesTheTreeAsBefore ==
    outcome = "failure" =>
        /\ ~Exists(disk, wavfile)
        /\ Exists(disk, audiofile)
        /\ disk = diskBefore

\* C10: when a precondition fails the run emits one fatal signal and
\* nothing else, and makes no file operation.
C10_FatalRunTouchesNothing ==
    (pc # "start" /\ (~dirExists \/ ~dirWritable \/ ~ffmpegExists)) =>
        /\ pc = "aborted"
        /\ Len(events) = 1
        /\ events[1].kind = "fatal"
        /\ ops = {}
        /\ disk = disk0
        /\ attempts = <<>>
        /\ probes = <<>>

\* a run on a directory that holds files and is not writable
C10_Witness ==
    /\ pc = "aborted"
    /\ dirExists
    /\ ~dirWritable
    /\ ffmpegExists
    /\ DOMAIN disk0 # {}

\* the positions of the signals of one kind, and the signals that tell the
\* user a file failed (lines 366 and 371)
EventsOfKind(kinds) == {i \in 1..Len(events) : events[i].kind \in kinds}
FailureKinds == {"failure", "exception"}
VerdictKinds == {"success"} \cup FailureKinds

\* C11: every processed file's signals are the start, the new name, then
\* one verdict (success or failure) and nothing else before the next file
\* or the summary; a finished run has one summary, which is its last signal,
\* and an aborted run has one fatal signal and no other signal.
C11_OneVerdictPerFile ==
    /\ \A i \in EventsOfKind({"start"}) :
          /\ i + 1 <= Len(events)
          /\ events[i + 1].kind = "newname"
          /\ events[i + 1].src = events[i].src
          /\ i + 2 <= Len(events) => events[i + 2].kind \in VerdictKinds
          /\ i + 3 <= Len(events) => events[i + 3].kind \in {"start", "summary"}
    /\ \A i \in EventsOfKind(VerdictKinds) :
          i > 2 /\ events[i - 2].kind = "start"
    /\ pc = "finished" =>
          /\ EventsOfKind({"summary"}) = {Len(events)}
          /\ EventsOfKind({"fatal"}) = {}
    /\ pc = "aborted" =>
          /\ Len(events) = 1
          /\ events[1].kind = "fatal"
    /\ pc \notin {"finished", "aborted"} => EventsOfKind({"summary", "fatal"}) = {}

\* C12: between two files and at the summary, the files started are as
\* many as success_count + error_count; the summary carries these counts;
\* the failure signals are as many as error_count.
C12_OneFailureSignalPerError ==
    pc \in {"walk", "finished"} =>
        /\ Cardinality(EventsOfKind({"start"})) = success_count + error_count
        /\ Cardinality(EventsOfKind(FailureKinds)) = error_count
        /\ pc = "finished" =>
              events[Len(events)].counts = Some(<<success_count, error_count>>)

\* the part of C12 about the counters alone
C12_CountersTallyTheFilesStarted ==
    pc \in {"walk", "finished"} =>
        Cardinality(EventsOfKind({"start"})) = success_count + error_count

\* the index in audio_extensions of the extension of a supported file
ExtIndexOf(file) ==
    CHOOSE i \in 1..Len(audio_extensions) : Matches(file, audio_extensions[i])

\* C13: the start signal of a file whose extension comes earlier in
\* audio_extensions precedes the start signal of every file whose extension
\* comes later, whatever their directories: when a file has just been
\* started, no file started before it has an extension that comes later.
C13_StartsFollowTheExtensionOrder ==
    pc = "probe" =>
        /\ events[Len(events) - 1].kind = "start"
        /\ events[Len(events) - 1].src = audiofile
        /\ \A i \in EventsOfKind({"start"}) :
              ExtIndexOf(events[i].src) <= ExtIndexOf(audiofile)

\* a file of the subdirectory was started before a file of the top
\* directory whose extension comes later in the list
C13_Witness ==
    \E i, j \in EventsOfKind({"start"}) :
        /\ i < j
        /\ events[i].src.dir = "top/sub"
        /\ events[j].src.dir = "top"
        /\ ExtIndexOf(events[i].src) < ExtIndexOf(events[j].src)

Supported(file) == \E i \in 1..Len(audio_extensions) : Matches(file, audio_extensions[i])

\* C17: a file whose extension is not supported stays as it was when the
\* run started; a file that was there when the processing of audiofile
\* began and is not audiofile is there with the same content; audiofile
\* itself is never rewritten, and is gone only once it was counted as a
\* success; the only file that was not there before is wavfile.
C17_OnlyTheTargetAndTheConvertedSourceChange ==
    /\ \A f \in DOMAIN disk0 :
          ~Supported(f) => Exists(disk, f) /\ disk[f] = "orig"
    /\ \A f \in DOMAIN diskBefore :
          IF f = audiofile
             THEN /\ Exists(disk, f) => disk[f] = diskBefore[f]
                  /\ ~Exists(disk, f) => outcome = "success"
             ELSE Exists(disk, f) /\ disk[f] = diskBefore[f]
    /\ \A f \in DOMAIN disk : ~Exists(diskBefore, f) => f = wavfile

\* a file failed and its partial output was removed, in a directory that
\* also holds a file that is not supported
C17_Witness ==
    /\ outcome = "failure"
    /\ pc = "walk"
    /\ success_count = 0
    /\ error_count = 1
    /\ "remove" \in ops
    /\ disk = diskBefore
    /\ \E f \in DOMAIN disk : ~Supported(f) /\ f.dir = audiofile.dir

\* the secondary strategy was called and returned a record
SecondaryYielded == Len(probes) = 2 /\ ~IsNone(probes[2].info)
Ladder == <<FILTER_CHAIN_PRIMARY, FILTER_CHAIN_FALLBACK, NO_FILTER_CHAIN>>

\* C18: the secondary probe is called only after the primary returned
\* nothing; the record used is the primary's when it returned one, else the
\* secondary's when it returned one, and the all-unknown record only when
\* neither did; and when the record is the secondary's its codec name is
\* unknown, the command lines are the ladder and the first attempt runs the
\* primary filter chain, whatever the extension of the file.
C18_SecondaryRecordSelectsTheLadder ==
    pc \in {"ffmpeg", "verify", "except"} /\ probes # <<>> =>
        /\ probes[1].tool = "ffprobe"
        /\ Len(probes) <= 2
        /\ Len(probes) = 2 => probes[2].tool = "ffmpeg" /\ IsNone(probes[1].info)
        /\ ~IsNone(probes[1].info) => Len(probes) = 1 /\ audio_info = Val(probes[1].info)
        /\ SecondaryYielded =>
              /\ audio_info = Val(probes[2].info)
              /\ IsNone(audio_info.codec_name)
              /\ cmds = Ladder
              /\ attempts # <<>> => attempts[1].chain = FILTER_CHAIN_PRIMARY
        /\ (\A i \in 1..Len(probes) : IsNone(probes[i].info)) =>
              Len(probes) = 2 /\ audio_info = AllUnknown

\* a .flac or .wav source for which only the secondary probe returned a
\* record was first tried with the primary filter chain
C18_Witness ==
    /\ SecondaryYielded
    /\ SuffixOf(audiofile) \in {"flac", "wav"}
    /\ attempts # <<>>
    /\ attempts[1].chain = FILTER_CHAIN_PRIMARY
    /\ attempts[1].input = audiofile

Terminated == pc \in {"finished", "aborted"}

\* what is left of the run, ordered lexicographically: the (pass, directory)
\* positions not yet visited, the files of the listing not yet iterated,
\* the steps left for the file being processed
Rank ==
    << (Len(audio_extensions) - extIdx) * Len(WalkDirs) + (Len(WalkDirs) - dirIdx),
       Cardinality(pending),
       CASE pc = "start" -> 9
         [] pc = "probe" -> 7
         [] pc = "ffmpeg" -> 6 - Len(attempts)
         [] pc = "verify" -> 3
         [] pc = "except" -> 2
         [] pc = "walk" -> 1
         [] OTHER -> 0 >>
LexLess(a, b) ==
    \/ a[1] < b[1]
    \/ a[1] = b[1] /\ a[2] < b[2]
    \/ a[1] = b[1] /\ a[2] = b[2] /\ a[3] < b[3]

\* the targets resolved for the sources of the pass and directory the run
\* is in
PassTargets ==
    {events[i].dst : i \in {k \in EventsOfKind({"newname"}) :
                               /\ events[k].src.dir = WalkDirs[dirIdx]
                               /\ Matches(events[k].src, audio_extensions[extIdx])}}

\* C19: every step of a run brings it closer to its end (a rank in a
\* well-founded order decreases) and a run that has not ended can take a
\* step, so every run ends; it ends with the summary or the fatal signal as
\* its last signal.  The resolver's loop ended, for the file just started,
\* within as many candidates as there are files; a path that has just been
\* started as a source was not started before in the run; and while a
\* pass stays in one directory nothing is added to the listing it
\* iterates, which holds files of that directory and none of the targets
\* resolved there in that pass.
C19_EveryRunTerminates ==
    /\ [][LexLess(Rank', Rank)]_vars
    /\ [](~Terminated => ENABLED Next)
    /\ [](Terminated =>
            /\ events # <<>>
            /\ events[Len(events)].kind \in {"summary", "fatal"})
    /\ [](pc = "probe" =>
            LET new_filename == sanitize_filename(audiofile.name)
            IN  \/ wavfile = Path(audiofile.dir, new_filename, "wav")
                \/ \E counter \in 1..Cardinality(DOMAIN diskBefore) :
                      wavfile = Suffixed(audiofile.dir, new_filename, counter))
    /\ [](pc = "probe" =>
            \A i \in EventsOfKind({"start"}) :
                events[i].src = audiofile => i = Len(events) - 1)
    /\ [](\A f \in pending : f.dir = WalkDirs[dirIdx] /\ f \notin PassTargets)
    /\ [][<<extIdx', dirIdx'>> = <<extIdx, dirIdx>> => pending' \subseteq pending]_vars

\* a run that processed one file twice over (its output was the source of
\* the wav pass) and ended with the summary
C19_Witness ==
    /\ pc = "finished"
    /\ success_count + error_count >= 3
    /\ \E i, j \in EventsOfKind({"newname"}) : events[j].src = events[i].dst

\* the n-th path of the sequence base.wav, base_1.wav, base_2.wav, ...
\* (untitled.wav, untitled1.wav, untitled2.wav, ... for the base untitled)
Candidate(dir, base, n) ==
    IF n = 0 THEN Path(dir, base, "wav")
    ELSE IF base = <<"u","n","t","i","t","l","e","d">>
        THEN Path(dir, base \o IntToDigits(n), "wav")
        ELSE Path(dir, base \o <<"_">> \o IntToDigits(n), "wav")

\* C14: each path the resolver returns is the first of the sequence of its
\* base that does not exist when it is returned; it does not exist at that
\* moment; and consecutive calls for the same source, each result being
\* created before the next call, return different paths.
C14_FirstFreeCandidate ==
    call.fn = "resolve" =>
        LET dir == call.audiofile.dir
            base == sanitize_filename(call.audiofile.name)
        IN  /\ \A k \in 1..Len(call.returned) :
                  /\ call.returned[k] \notin call.before[k]
                  /\ \E n \in 0..Cardinality(call.before[k]) :
                        /\ call.returned[k] = Candidate(dir, base, n)
                        /\ \A m \in 0..(n - 1) :
                              Candidate(dir, base, m) \in call.before[k]
            /\ \A j, k \in 1..Len(call.returned) :
                  call.returned[j] = call.returned[k] => j = k

\* two calls for a name that sanitizes to untitled, in a directory that
\* holds untitled.wav: untitled1.wav, then untitled2.wav
C14_Witness ==
    /\ call.fn = "resolve"
    /\ call.before # <<>>
    /\ call.before[1] = {Path("top", untitled, "wav")}
    /\ call.returned = << Path("top", untitled \o <<"1">>, "wav"),
                          Path("top", untitled \o <<"2">>, "wav") >>

\* the bit depth of a sample-format token, for the tokens of SampleFormats
\* that name one
TokenDepths ==
    { << <<"u","8">>, 8 >>, << <<"s","1","6">>, 16 >>,
      << <<"s","1","6","p">>, 16 >>, << <<"s","3","2">>, 32 >>,
      << <<"f","l","t">>, 32 >>, << <<"f","l","t","p">>, 32 >>,
      << <<"d","b","l">>, 64 >> }
\* the known bit depths of a call: the one reported, else the one the
\* token names; empty when the bit depth is not known
KnownDepths(bit_depth, sample_fmt) ==
    IF ~IsNone(bit_depth) THEN {Val(bit_depth)}
    ELSE IF IsNone(sample_fmt) THEN {}
    ELSE {t[2] : t \in {u \in TokenDepths : u[1] = Val(sample_fmt)}}

\* C15: _needs_16bit returns False exactly when the bit depth is known
\* (reported, or else named by the sample format) and is at most 16; it
\* returns True when the depth is above 16 and when it is not known.
C15_SixteenBitUnlessKnownNarrow ==
    (call.fn = "_needs_16bit" /\ ~IsNone(call.returned)) =>
        LET known == KnownDepths(call.bit_depth, call.sample_fmt)
        IN  (Val(call.returned) = FALSE) <=> (\E depth \in known : depth <= 16)

\* the call with no reported depth and a token that names none: True
C15_Witness ==
    /\ call.fn = "_needs_16bit"
    /\ call.bit_depth = None
    /\ call.sample_fmt = Some(<<"x">>)
    /\ call.returned = Some(TRUE)

\* C16: sanitize_filename returns a non-empty string of the characters
\* a-z and 0-9 only, for every name.
C16_OnlyLowerAsciiAlnum ==
    (call.fn = "sanitize_filename" /\ ~IsNone(call.returned)) =>
        /\ Val(call.returned) # <<>>
        /\ \A i \in 1..Len(Val(call.returned)) :
              Val(call.returned)[i] \in SeqToSet(AsciiLower) \cup SeqToSet(AsciiDigits)

\* a worker thread is in run
WorkerRunning == pc \in {"start", "walk", "probe", "ffmpeg", "verify", "except"}
\* both buttons are disabled
Locked == ~convert_enabled /\ ~select_enabled
TerminalSignals == EventsOfKind({"summary", "fatal"})

\* C20: a worker is started only by a click on the enabled convert button,
\* when no worker runs and every signal of the previous one was handled,
\* and that step disables both buttons; the buttons stay disabled while the
\* worker runs and while one of its signals is not handled; they are
\* enabled again, both, only by the slot of the finished or error signal,
\* of which a worker emits none before its end and exactly one, as its
\* last signal, at its end; and while the buttons are disabled the system
\* can always take a step, each step bringing the end of the wait closer
\* (the rank of the run decreases, or the signals not yet handled do): the
\* buttons do not stay disabled for ever.
C20_OneWorkerAtATime ==
    /\ [][runs' # runs =>
            /\ runs' = runs + 1
            /\ convert_enabled
            /\ ~WorkerRunning
            /\ handled = Len(events)
            /\ Locked'
            /\ pc' = "start"]_vars
    /\ []((runs >= 1 /\ (WorkerRunning \/ handled < Len(events))) => Locked)
    /\ [][(Locked /\ ~Locked') =>
            /\ ~WorkerRunning
            /\ NextSignal.kind \in {"summary", "fatal"}
            /\ handled' = Len(events)
            /\ convert_enabled' /\ select_enabled']_vars
    /\ [](IF Terminated
             THEN TerminalSignals = {Len(events)}
             ELSE TerminalSignals = {})
    /\ [](Locked => ENABLED WindowNext)
    /\ [][(Locked /\ Locked') =>
            \/ LexLess(Rank', Rank)
            \/ Rank' = Rank /\ Len(events') - handled' < Len(events) - handled]_vars

\* the window started a second worker after the first ended, and the
\* buttons are enabled again after the second, which converted a file
C20_Witness ==
    /\ runs = 2
    /\ pc = "finished"
    /\ success_count >= 1
    /\ handled = Len(events)
    /\ convert_enabled
    /\ select_enabled

====
